---- MODULE Spec2Model ----
(***************************************************************************)
(* Indicator computation of the fin_ethu dashboard scripts: the moving     *)
(* averages and the RSI that get_stock_data / analyze_stock add to the     *)
(* downloaded price table.                                                 *)
(*                                                                         *)
(* A pandas float is modelled as a record: k = "nan" (missing value),      *)
(* k = "inf" (n = +1 or -1 is the sign) or k = "num" (the exact rational   *)
(* n/d in lowest terms, d > 0).  Arithmetic follows IEEE-754 as numpy      *)
(* applies it to a Series: NaN propagates, x/0 is an infinity for x # 0    *)
(* and NaN for x = 0, and nothing raises.  Rounding is not modelled, and   *)
(* zero carries no sign (the sign of a zero divisor only selects +inf or   *)
(* -inf, which the RSI formula maps to the same value).                    *)
(***************************************************************************)
EXTENDS Integers, Sequences, FiniteSets

\* ---------------------------------------------------------------- state
\* get_stock_data / analyze_stock: the price table, its indicators, the result handed to main and the charts main drew
VARIABLES close, window, maWindow, pc, ma, rsi, rsiBy, stock_df, drawn

\* main of the stock-vs-rate script: the two tables and their merge_asof join
VARIABLES stock_data, fed_data, combined_data, alignPc

\* the date-range filters of the auxiliary series: the table, the requested range and the filtered table
VARIABLES series, start_date, end_date, filtered, filterBy

\* analyze_stock of app.py as a sequence of steps over objects: the price table, the provider's financials, cashflow and dividends objects as they are now and as they were given, and the local results
VARIABLES tbl, fin, cf, div_obj, given, revenue_data, dividends, fcf_data, frame_start, frame_rsi, framePc

\* get_economic_data and its caller: the two World Bank responses, the returned table and the chart main drew
VARIABLES gdp_resp, inflation_resp, economic_df, econ_fig, econPc

\* the chat assistant: session chat history, the model's last first response, the tools run and the tool responses sent back in the last exchange, where the script run stands
VARIABLES chat_history, response, executed, followup, stopped, chatPc

\* app.py main: the three session_state keys, what the last run displayed, the last run's inputs, the return path analyze_stock took and whether unpacking its result raised
VARIABLES fig, stock_name, rsi_interpretation, shown, header, sidebar_info, ticker, clicked, returned, unpack_failed, interrupted, runs

\* the yfinance tool functions: the call, what the provider does, the returned JSON
VARIABLES tool_name, tool_ticker, provider, tool_output, toolPc

\* interpret_rsi and its call in analyze_stock: the price table and window, the value interpreted, the reading returned
VARIABLES interp_close, interp_window, latest_rsi, rsi_interpretation_text, interpPc

\* fetch_fed_rate_data and its caller: which variant runs, the end of the date range, the table returned, what main showed
VARIABLES fed_variant, fed_end, fed_table, fed_shown, fedPc

indVars == <<close, window, maWindow, pc, ma, rsi, rsiBy, stock_df, drawn>>

alignVars == <<stock_data, fed_data, combined_data, alignPc>>

filterVars == <<series, start_date, end_date, filtered, filterBy>>

frameVars == <<tbl, fin, cf, div_obj, given, revenue_data, dividends, fcf_data, frame_start, frame_rsi, framePc>>

econVars == <<gdp_resp, inflation_resp, economic_df, econ_fig, econPc>>

chatVars == <<chat_history, response, executed, followup, stopped, chatPc>>

mainVars == <<fig, stock_name, rsi_interpretation, shown, header, sidebar_info, ticker, clicked, returned, unpack_failed, interrupted, runs>>

toolsVars == <<tool_name, tool_ticker, provider, tool_output, toolPc>>

interpVars == <<interp_close, interp_window, latest_rsi, rsi_interpretation_text, interpPc>>

fedVars == <<fed_variant, fed_end, fed_table, fed_shown, fedPc>>

vars == <<indVars, alignVars, filterVars, frameVars, econVars, chatVars, mainVars, toolsVars, interpVars, fedVars>>

\* everything but the ind state
notInd == <<alignVars, filterVars, frameVars, econVars, chatVars, mainVars, toolsVars, interpVars, fedVars>>

\* everything but the align state
notAlign == <<indVars, filterVars, frameVars, econVars, chatVars, mainVars, toolsVars, interpVars, fedVars>>

\* everything but the filter state
notFilter == <<indVars, alignVars, frameVars, econVars, chatVars, mainVars, toolsVars, interpVars, fedVars>>

\* everything but the frame state
notFrame == <<indVars, alignVars, filterVars, econVars, chatVars, mainVars, toolsVars, interpVars, fedVars>>

\* everything but the econ state
notEcon == <<indVars, alignVars, filterVars, frameVars, chatVars, mainVars, toolsVars, interpVars, fedVars>>

\* everything but the chat state
notChat == <<indVars, alignVars, filterVars, frameVars, econVars, mainVars, toolsVars, interpVars, fedVars>>

\* everything but the main state
notMain == <<indVars, alignVars, filterVars, frameVars, econVars, chatVars, toolsVars, interpVars, fedVars>>

\* everything but the tools state
notTools == <<indVars, alignVars, filterVars, frameVars, econVars, chatVars, mainVars, interpVars, fedVars>>

\* everything but the interp state
notInterp == <<indVars, alignVars, filterVars, frameVars, econVars, chatVars, mainVars, toolsVars, fedVars>>

\* everything but the fed state
notFed == <<indVars, alignVars, filterVars, frameVars, econVars, chatVars, mainVars, toolsVars, interpVars>>

\* ------------------------------------------------------------------ bounds
MaxLen == 5
MaxPrice == 3
MaxWindow == 4
MaxDate == 4
MaxStockRows == 3
MaxFedRows == 2
MaxFrameLen == 2
MaxObs == 2
MaxParts == 2
MaxInputs == 2
MaxRuns == 5
MaxBars == 2
RsiDenominator == 2
MaxExtraYears == 3

\* window=14: the default of calculate_rsi and the literal of the inline RSI
DefaultRsiWindow == 14
StartYear == 2000
EndYear == 2025

\* ------------------------------------------------------------ float values
Abs(x) == IF x < 0 THEN -x ELSE x

Sign(x) == IF x < 0 THEN -1 ELSE 1

RECURSIVE GCD(_, _)
GCD(a, b) == IF b = 0 THEN a ELSE GCD(b, a % b)

NaN == [k |-> "nan", n |-> 0, d |-> 1]

Inf(s) == [k |-> "inf", n |-> s, d |-> 1]

Num(n, d) ==
    LET g == GCD(Abs(n), Abs(d))
    IN  [k |-> "num", n |-> Sign(d) * (n \div g), d |-> Abs(d) \div g]

Int2F(i) == [k |-> "num", n |-> i, d |-> 1]

IsNaN(x) == x.k = "nan"

IsNum(x) == x.k = "num"

\* x < y, x <= y on finite values
LtF(x, y) == x.n * y.d < y.n * x.d

LeqF(x, y) == x.n * y.d <= y.n * x.d

Neg(x) ==
    IF x.k = "nan" THEN NaN
    ELSE IF x.k = "inf" THEN Inf(-x.n)
    ELSE [k |-> "num", n |-> -x.n, d |-> x.d]

Add(x, y) ==
    IF x.k = "nan" \/ y.k = "nan" THEN NaN
    ELSE IF x.k = "inf" /\ y.k = "inf" THEN (IF x.n = y.n THEN x ELSE NaN)
    ELSE IF x.k = "inf" THEN x
    ELSE IF y.k = "inf" THEN y
    ELSE Num(x.n * y.d + y.n * x.d, x.d * y.d)

Sub(x, y) == Add(x, Neg(y))

\* Div with a zero divisor masked to NaN (avg_down.replace(0, nan))
DivZeroNaN(x, y) ==
    IF x.k = "nan" \/ y.k = "nan" THEN NaN
    ELSE IF x.k = "inf" /\ y.k = "inf" THEN NaN
    ELSE IF x.k = "inf" THEN Inf(x.n * Sign(y.n))
    ELSE IF y.k = "inf" THEN Int2F(0)
    ELSE IF y.n = 0 THEN NaN
    ELSE Num(x.n * y.d, x.d * y.n)

Div(x, y) ==
    IF x.k = "nan" \/ y.k = "nan" THEN NaN
    ELSE IF x.k = "inf" /\ y.k = "inf" THEN NaN
    ELSE IF x.k = "inf" THEN Inf(x.n * Sign(y.n))
    ELSE IF y.k = "inf" THEN Int2F(0)
    ELSE IF y.n = 0 THEN (IF x.n = 0 THEN NaN ELSE Inf(Sign(x.n)))
    ELSE Num(x.n * y.d, x.d * y.n)

\* ------------------------------------------------------- Series operations
\* diff().fillna(0): position 1 is 0 instead of NaN
DiffFillZero(s) ==
    [i \in 1..Len(s) |-> IF i = 1 THEN Int2F(0) ELSE Sub(s[i], s[i - 1])]

\* Series.diff(): position 1 has no predecessor and is NaN
Diff(s) ==
    [i \in 1..Len(s) |-> IF i = 1 THEN NaN ELSE Sub(s[i], s[i - 1])]

\* Series.clip(lower=0): NaN stays NaN
ClipLower0(s) ==
    [i \in 1..Len(s) |->
        IF IsNaN(s[i]) THEN NaN
        ELSE IF LtF(s[i], Int2F(0)) THEN Int2F(0) ELSE s[i]]

\* Series.clip(upper=0): NaN stays NaN
ClipUpper0(s) ==
    [i \in 1..Len(s) |->
        IF IsNaN(s[i]) THEN NaN
        ELSE IF LtF(Int2F(0), s[i]) THEN Int2F(0) ELSE s[i]]

\* -1 * Series
NegS(s) == [i \in 1..Len(s) |-> Neg(s[i])]

\* delta.where(delta > 0, 0): NaN > 0 is False, so NaN is replaced by 0
WhereGt0(s) ==
    [i \in 1..Len(s) |->
        IF IsNum(s[i]) /\ LtF(Int2F(0), s[i]) THEN s[i] ELSE Int2F(0)]

\* delta.where(delta < 0, 0): NaN < 0 is False, so NaN is replaced by 0
WhereLt0(s) ==
    [i \in 1..Len(s) |->
        IF IsNum(s[i]) /\ LtF(s[i], Int2F(0)) THEN s[i] ELSE Int2F(0)]

\* Series.rolling(w).mean(), min_periods = w, as pandas' roll_mean computes
\* it: a running sum and a running count of the non-NaN observations; the
\* value entering the window is added, the one leaving it is removed.
RECURSIVE RollStates(_, _, _)
RollStates(s, w, i) ==
    IF i = 0 THEN <<>>
    ELSE LET q  == RollStates(s, w, i - 1)
             p  == IF i = 1 THEN [sum |-> Int2F(0), nobs |-> 0] ELSE q[i - 1]
             a  == IF IsNaN(s[i]) THEN p
                   ELSE [sum |-> Add(p.sum, s[i]), nobs |-> p.nobs + 1]
         IN  Append(q, IF i - w >= 1 /\ ~IsNaN(s[i - w])
                       THEN [sum |-> Sub(a.sum, s[i - w]), nobs |-> a.nobs - 1]
                       ELSE a)

\* the running state after position i
RollState(s, w, i) ==
    IF i = 0 THEN [sum |-> Int2F(0), nobs |-> 0] ELSE RollStates(s, w, i)[i]

\* rolling(w).sum() in place of rolling(w).mean()
RollingSum(s, w) ==
    [i \in 1..Len(s) |->
        LET st == RollState(s, w, i)
        IN  IF st.nobs >= w THEN st.sum ELSE NaN]

\* rolling(w, min_periods=1).mean()
RollingMeanMinPeriods1(s, w) ==
    [i \in 1..Len(s) |->
        LET st == RollState(s, w, i)
        IN  IF st.nobs >= 1 THEN Div(st.sum, Int2F(st.nobs)) ELSE NaN]

RollingMean(s, w) ==
    [i \in 1..Len(s) |->
        LET st == RollState(s, w, i)
        IN  IF st.nobs >= w THEN Div(st.sum, Int2F(st.nobs)) ELSE NaN]

DivS(a, b) == [i \in 1..Len(a) |-> Div(a[i], b[i])]

\* 100 - (100 / rs)
RsiOfRsNoOne(rs) ==
    [i \in 1..Len(rs) |-> Sub(Int2F(100), Div(Int2F(100), rs[i]))]

\* 100 - (100 / (1 + rs))
RsiOfRs(rs) ==
    [i \in 1..Len(rs) |->
        Sub(Int2F(100), Div(Int2F(100), Add(Int2F(1), rs[i])))]

ToSeries(c) == [i \in 1..Len(c) |-> Int2F(c[i])]

\* calculate_rsi without the -1 * on the losses
calculate_rsi_NoNeg(c, w) ==
    LET delta        == Diff(ToSeries(c))
        up           == ClipLower0(delta)
        down         == ClipUpper0(delta)
        average_up   == RollingMean(up, w)
        average_down == RollingMean(down, w)
        rs           == DivS(average_up, average_down)
    IN  RsiOfRs(rs)

\* calculate_rsi with rs = average_down / average_up
calculate_rsi_Swapped(c, w) ==
    LET delta        == Diff(ToSeries(c))
        up           == ClipLower0(delta)
        down         == NegS(ClipUpper0(delta))
        average_up   == RollingMean(up, w)
        average_down == RollingMean(down, w)
        rs           == DivS(average_down, average_up)
    IN  RsiOfRs(rs)

calculate_rsi(c, w) ==
    LET delta        == Diff(ToSeries(c))
        up           == ClipLower0(delta)
        down         == NegS(ClipUpper0(delta))
        average_up   == RollingMean(up, w)
        average_down == RollingMean(down, w)
        rs           == DivS(average_up, average_down)
    IN  RsiOfRs(rs)

\* the RSI that finethtestsimple.get_stock_data computes inline
inline_rsi(c, w) ==
    LET delta == Diff(ToSeries(c))
        gain  == RollingMean(WhereGt0(delta), w)
        loss  == RollingMean(NegS(WhereLt0(delta)), w)
        rs    == DivS(gain, loss)
    IN  RsiOfRs(rs)

\* ------------------------------------------------------------------ inputs
RECURSIVE SeqsUpTo(_, _)
SeqsUpTo(S, n) ==
    IF n = 0 THEN {<<>>}
    ELSE LET r == SeqsUpTo(S, n - 1)
         IN  r \cup {Append(q, x) : q \in {t \in r : Len(t) = n - 1}, x \in S}

Prices == 1..MaxPrice

SmallSeries == SeqsUpTo(Prices, MaxLen)

\* the series of the documented scenarios
RisingScenario == [i \in 1..(DefaultRsiWindow + 1) |-> i]

FallingScenario == [i \in 1..(DefaultRsiWindow + 1) |-> DefaultRsiWindow + 2 - i]

FlatScenario == [i \in 1..(DefaultRsiWindow + 6) |-> 10]

Scenarios == {RisingScenario, FallingScenario, FlatScenario}

\* ------------------------------------------------------------- the program
\* the indicator state before a request, and while another script runs
IndIdle ==
    /\ close = <<>>
    /\ window = 1
    /\ maWindow = 1
    /\ pc = "idle"
    /\ ma = <<>>
    /\ rsi = <<>>
    /\ rsiBy = "none"
    /\ stock_df = "unset"
    /\ drawn = {}

\* the provider has answered: close is the Close column of its table
IndInit ==
    /\ \/ /\ close \in SmallSeries
          /\ window \in 1..MaxWindow
          /\ maWindow \in 1..MaxWindow
       \/ /\ close \in Scenarios
          /\ window = DefaultRsiWindow
          /\ maWindow = DefaultRsiWindow
    /\ pc = "fetched"
    /\ ma = <<>>
    /\ rsi = <<>>
    /\ rsiBy = "none"
    /\ stock_df = "unset"
    /\ drawn = {}

\* if stock_data.empty: st.error(...); return None.  The script runner can
\* end the run at the st.error call: then nothing is returned
EmptyData ==
    /\ pc = "fetched"
    /\ close = <<>>
    /\ \E stop \in BOOLEAN :
          /\ pc' = IF stop THEN "stopped" ELSE "nodata"
          /\ stock_df' = IF stop THEN stock_df ELSE "None"
    /\ UNCHANGED <<close, window, maWindow, ma, rsi, rsiBy, drawn>>
    /\ UNCHANGED notInd

\* stock_data['Close'].rolling(window=...).mean()
ComputeMA ==
    /\ pc = "fetched"
    /\ close # <<>>
    /\ ma' = RollingMean(ToSeries(close), maWindow)
    /\ pc' = "ma"
    /\ UNCHANGED <<close, window, maWindow, rsi, rsiBy, stock_df, drawn>>
    /\ UNCHANGED notInd

\* stock_data['RSI'] = calculate_rsi(stock_data); the table is returned
CalculateRsi ==
    /\ pc = "ma"
    /\ rsi' = calculate_rsi(close, window)
    /\ rsiBy' = "calculate_rsi"
    /\ pc' = "done"
    /\ stock_df' = "table"
    /\ UNCHANGED <<close, window, maWindow, ma, drawn>>
    /\ UNCHANGED notInd

\* df['RSI'] = 100 - (100 / (1 + rs)) in finethtestsimple.get_stock_data;
\* return df
InlineRsi ==
    /\ pc = "ma"
    /\ rsi' = inline_rsi(close, window)
    /\ rsiBy' = "inline"
    /\ pc' = "done"
    /\ stock_df' = "table"
    /\ UNCHANGED <<close, window, maWindow, ma, drawn>>
    /\ UNCHANGED notInd

\* plot_stock_data / plot_rsi_data: None for a missing or empty table
plot_data(df, c) == IF df = "None" \/ c = <<>> THEN "None" ELSE "fig"

\* where the script runner can end main of finethtestsimple while it draws:
\* at the st call that shows the stock chart (lines 707-709), at st.expander
\* (713) or at the st call that shows the RSI chart (719-721)
ChartStops == {"none", "stock_chart", "expander", "rsi_chart"}

\* main of finethtestsimple draws without looking at the result
MainChartsUnguarded ==
    /\ \/ pc = "nodata"
       \/ pc = "done" /\ rsiBy = "inline"
    /\ drawn' = {"stock", "rsi"}
    /\ pc' = "main_done"
    /\ UNCHANGED <<close, window, maWindow, ma, rsi, rsiBy, stock_df>>
    /\ UNCHANGED notInd

\* main of finethtestsimple: if stock_df is not None: plot the stock chart;
\* with st.expander(...): if stock_df is not None: plot the RSI chart.  A
\* run ended at one of the st calls has drawn what came before it
MainCharts ==
    /\ \/ pc = "nodata"
       \/ pc = "done" /\ rsiBy = "inline"
    /\ \E stop \in ChartStops :
          LET table   == stock_df # "None"
              plotted == table /\ plot_data(stock_df, close) # "None"
              stock   == IF plotted THEN {"stock"} ELSE {}
              rsiplot == IF plotted THEN {"rsi"} ELSE {}
          IN  IF stop = "stock_chart" /\ table
              THEN drawn' = {} /\ pc' = "stopped"
              ELSE IF stop = "expander"
              THEN drawn' = stock /\ pc' = "stopped"
              ELSE IF stop = "rsi_chart" /\ table
              THEN drawn' = stock /\ pc' = "stopped"
              ELSE drawn' = stock \cup rsiplot /\ pc' = "main_done"
    /\ UNCHANGED <<close, window, maWindow, ma, rsi, rsiBy, stock_df>>
    /\ UNCHANGED notInd

IndNext == EmptyData \/ ComputeMA \/ CalculateRsi \/ InlineRsi \/ MainCharts

\* ------------------------------------------------ stock-vs-rate alignment
\* NaT: the Date of a row that merge_asof could not match
NaT == 0

Dates == 1..MaxDate

RateValues == {NaN, Int2F(5), Int2F(7)}

\* DataFrame.sort_values(key): stable, ascending
InsertByDate(t, x) ==
    LET k == Cardinality({i \in 1..Len(t) : t[i].date <= x.date})
    IN  SubSeq(t, 1, k) \o <<x>> \o SubSeq(t, k + 1, Len(t))

RECURSIVE SortValues(_)
SortValues(s) ==
    IF s = <<>> THEN <<>>
    ELSE InsertByDate(SortValues(SubSeq(s, 1, Len(s) - 1)), s[Len(s)])

\* the scan of pandas' backward as-of join: the number of right rows whose
\* key is <= d, found by advancing the right position p
RECURSIVE Advance(_, _, _)
Advance(r, p, d) ==
    IF p < Len(r) /\ r[p + 1].date <= d THEN Advance(r, p + 1, d) ELSE p

\* the right position after the left rows 1..i; it never moves back
RECURSIVE RightPos(_, _, _)
RightPos(l, r, i) ==
    IF i = 0 THEN 0 ELSE Advance(r, RightPos(l, r, i - 1), l[i].date)

JoinRow(x, r, p) ==
    [date  |-> x.date,
     close |-> x.close,
     fdate |-> IF p = 0 THEN NaT ELSE r[p].date,
     rate  |-> IF p = 0 THEN NaN ELSE r[p].rate]

\* direction='forward': the first right row whose key is >= the left key
merge_asof_forward(l, r) ==
    [i \in 1..Len(l) |->
        LET p == Cardinality({j \in 1..Len(r) : r[j].date < l[i].date}) + 1
        IN  JoinRow(l[i], r, IF p > Len(r) THEN 0 ELSE p)]

\* pd.merge_asof(left, right, left_on="Stock Date", right_on="Date"):
\* direction='backward', exact matches allowed, one row per left row
merge_asof(l, r) ==
    [i \in 1..Len(l) |-> JoinRow(l[i], r, RightPos(l, r, i))]

\* sequences of at most n rows with pairwise different dates, any order
RECURSIVE StockTables(_)
StockTables(n) ==
    IF n = 0 THEN {<<>>}
    ELSE LET r == StockTables(n - 1)
         IN  r \cup {Append(q, [date |-> d, close |-> c]) :
                        q \in {t \in r : Len(t) = n - 1}, d \in Dates, c \in 1..2}

DistinctDates(t) == \A i, j \in 1..Len(t) : i # j => t[i].date # t[j].date

\* rate tables of at most n rows, dates ascending as date_range makes them
RECURSIVE FedTables(_)
FedTables(n) ==
    IF n = 0 THEN {<<>>}
    ELSE LET r == FedTables(n - 1)
         IN  r \cup {Append(q, [date |-> d, rate |-> v]) :
                        q \in {t \in r : Len(t) = n - 1}, d \in Dates, v \in RateValues}

AscendingDates(t) == \A i \in 2..Len(t) : t[i - 1].date < t[i].date

\* the documented scenario: ten consecutive stock dates, rate 5 from the
\* first date and 7 from the fifth
ScenarioStock == [i \in 1..10 |-> [date |-> i, close |-> 1]]

ScenarioFed == <<[date |-> 1, rate |-> Int2F(5)], [date |-> 5, rate |-> Int2F(7)]>>

AlignIdle ==
    /\ stock_data = <<>>
    /\ fed_data = <<>>
    /\ combined_data = <<>>
    /\ alignPc = "idle"

\* fed_data = fetch_fed_rate_data(); stock_data = fetch_stock_data()
AlignInit ==
    /\ \/ /\ stock_data \in {t \in StockTables(MaxStockRows) : DistinctDates(t)}
          /\ fed_data \in {t \in FedTables(MaxFedRows) : AscendingDates(t)}
       \/ /\ stock_data = ScenarioStock
          /\ fed_data = ScenarioFed
    /\ combined_data = <<>>
    /\ alignPc = "fetched"

\* else: st.warning("No data available to display.")
AlignNoData ==
    /\ alignPc = "fetched"
    /\ stock_data = <<>> \/ fed_data = <<>>
    /\ alignPc' = "warned"
    /\ UNCHANGED <<stock_data, fed_data, combined_data>>
    /\ UNCHANGED notAlign

\* combined_data = pd.merge_asof(stock_data.sort_values("Stock Date"),
\*                               fed_data.sort_values("Date"), ...)
Merge ==
    /\ alignPc = "fetched"
    /\ stock_data # <<>> /\ fed_data # <<>>
    /\ combined_data' = merge_asof(SortValues(stock_data), SortValues(fed_data))
    /\ alignPc' = "merged"
    /\ UNCHANGED <<stock_data, fed_data>>
    /\ UNCHANGED notAlign

AlignNext == AlignNoData \/ Merge

\* ------------------------------------------------------ date-range filters
\* df[mask]: the rows whose mask entry is True, in their order
RECURSIVE BoolIndex(_, _)
BoolIndex(t, mask) ==
    IF t = <<>> THEN <<>>
    ELSE LET rest == BoolIndex(SubSeq(t, 1, Len(t) - 1), SubSeq(mask, 1, Len(t) - 1))
         IN  IF mask[Len(t)] THEN Append(rest, t[Len(t)]) ELSE rest

\* (df['Date'] >= start_date) & (df['Date'] <= end_date)
RangeMask(t, s0, e0) ==
    [i \in 1..Len(t) |-> t[i].date >= s0 /\ t[i].date <= e0]

\* index >= start_date_utc
FromMask(t, s0) == [i \in 1..Len(t) |-> t[i].date >= s0]

\* DataFrame.dropna()
DropNa(t) == BoolIndex(t, [i \in 1..Len(t) |-> ~IsNaN(t[i].rate)])

\* revenue_start_date = datetime(2000, 1, 1), the start main of
\* finethtestsimple gives get_revenue_data: a date before every start date
\* its buttons select
revenue_start_date == 0

FilterIdle ==
    /\ series = <<>>
    /\ start_date = 1
    /\ end_date = 1
    /\ filtered = <<>>
    /\ filterBy = "none"

DescendingByDate(t) == \A i \in 2..Len(t) : t[i - 1].date > t[i].date

\* an auxiliary table in the order its source gives it (the generated rate
\* table and dividends oldest first, financial statements newest first), and
\* the range of the request: the slider's range, main's start_date and
\* end_date = today, or the start year of app.py, which asks for no end date
\* (end_date is then the day of the request, to which yf.download runs)
FilterInit ==
    /\ series \in {t \in FedTables(MaxFedRows) :
                      AscendingDates(t) \/ DescendingByDate(t)}
    /\ start_date \in Dates
    /\ end_date \in Dates
    /\ start_date <= end_date
    /\ filtered = <<>>
    /\ filterBy = "none"

\* fed_data_filtered = fed_data[(fed_data['Date'] >= start_date) &
\*                              (fed_data['Date'] <= end_date)]
FedDataFiltered ==
    /\ filterBy = "none"
    /\ AscendingDates(series)
    /\ filtered' = BoolIndex(series, RangeMask(series, start_date, end_date))
    /\ filterBy' = "fed_data_filtered"
    /\ UNCHANGED <<series, start_date, end_date>>
    /\ UNCHANGED notFilter

\* revenue_df.sort_index(), the range filter, then revenue_df.dropna()
get_revenue_data(t, s0, e0) ==
    DropNa(BoolIndex(SortValues(t), RangeMask(SortValues(t), s0, e0)))

\* main of finethtestsimple:
\* revenue_df = get_revenue_data(stock_symbol, revenue_start_date, end_date)
GetRevenueData ==
    /\ filterBy = "none"
    /\ filtered' = get_revenue_data(series, revenue_start_date, end_date)
    /\ filterBy' = "get_revenue_data"
    /\ UNCHANGED <<series, start_date, end_date>>
    /\ UNCHANGED notFilter

\* analyze_stock: revenue_data[revenue_data.index >= start_date_utc], the
\* rows kept in the order the provider gave them
AnalyzeStockFilter ==
    /\ filterBy = "none"
    /\ filtered' = BoolIndex(series, FromMask(series, start_date))
    /\ filterBy' = "analyze_stock"
    /\ UNCHANGED <<series, start_date, end_date>>
    /\ UNCHANGED notFilter

FilterNext == FedDataFiltered \/ GetRevenueData \/ AnalyzeStockFilter

\* ------------------------------------ analyze_stock: objects and mutation
\* the time zone of a DatetimeIndex: None (naive), UTC or an exchange zone
TimeZones == {"naive", "UTC", "America/New_York"}

\* the dates the provider reports for the statements and the dividends
AllDates == [i \in 1..MaxDate |-> i]

\* pd.to_datetime(index).tz_localize('UTC') if index.tz is None
\* else index.tz_convert('UTC'): the same instants, labelled UTC
ToUtc(ix) == [ix EXCEPT !.tz = "UTC"]

\* series[series.index >= start_date_utc]: a new object
IndexFrom(ix, s0) ==
    [ix EXCEPT !.dates = BoolIndex(ix.dates,
                                   [i \in 1..Len(ix.dates) |-> ix.dates[i] >= s0])]

EmptySeries == [tz |-> "naive", dates |-> <<>>]

\* a statement table: whether it has the wanted row, and its column index
Statements == [hasRow : BOOLEAN, tz : TimeZones, dates : {AllDates}]

\* a dividends Series: empty, or one payment per date
DividendSeries == {EmptySeries} \cup [tz : TimeZones, dates : {AllDates}]

FrameTables == [cols : {{"Close"}}, close : SeqsUpTo(Prices, MaxFrameLen) \ {<<>>}]

FrameIdle ==
    /\ tbl = [cols |-> {}, close |-> <<>>]
    /\ fin = [hasRow |-> FALSE, tz |-> "naive", dates |-> <<>>]
    /\ cf = [hasRow |-> FALSE, tz |-> "naive", dates |-> <<>>]
    /\ div_obj = EmptySeries
    /\ given = <<>>
    /\ revenue_data = EmptySeries
    /\ dividends = EmptySeries
    /\ fcf_data = EmptySeries
    /\ frame_start = 1
    /\ frame_rsi = <<>>
    /\ framePc = "idle"

\* stock_data, stock_info.financials, .cashflow and .dividends as received
FrameInit ==
    /\ tbl \in FrameTables
    /\ fin \in Statements
    /\ cf \in Statements
    /\ div_obj \in DividendSeries
    /\ given = [tbl |-> tbl, fin |-> fin, cf |-> cf, div |-> div_obj]
    /\ revenue_data = EmptySeries
    /\ dividends = EmptySeries
    /\ fcf_data = EmptySeries
    /\ frame_start \in Dates
    /\ frame_rsi = <<>>
    /\ framePc = "ma"

FrameUnchangedObjects == UNCHANGED <<tbl, fin, cf, div_obj, given, frame_start>>

\* the call calculate_rsi(stock_data): reads data['Close'], builds new Series
FrameCalculateRsi ==
    /\ framePc = "ma"
    /\ frame_rsi' = calculate_rsi(tbl.close, DefaultRsiWindow)
    /\ framePc' = "rsi_returned"
    /\ FrameUnchangedObjects
    /\ UNCHANGED <<revenue_data, dividends, fcf_data>>
    /\ UNCHANGED notFrame

\* stock_data['RSI'] = <the returned Series>: the caller adds the column
FrameAssignRsi ==
    /\ framePc = "rsi_returned"
    /\ tbl' = [tbl EXCEPT !.cols = @ \cup {"RSI"}]
    /\ framePc' = "revenue"
    /\ UNCHANGED <<fin, cf, div_obj, given, frame_start, frame_rsi>>
    /\ UNCHANGED <<revenue_data, dividends, fcf_data>>
    /\ UNCHANGED notFrame

\* revenue_data = financials.loc['Total Revenue'] is a new Series; setting
\* revenue_data.index replaces the index of that Series only
FrameRevenue ==
    /\ framePc = "revenue"
    /\ revenue_data' =
          IF fin.hasRow
          THEN IndexFrom(ToUtc([tz |-> fin.tz, dates |-> fin.dates]), frame_start)
          ELSE EmptySeries
    /\ framePc' = "dividends"
    /\ FrameUnchangedObjects
    /\ UNCHANGED <<dividends, fcf_data, frame_rsi>>
    /\ UNCHANGED notFrame

\* dividends.index = ... assigns the index of the Series that
\* stock_info.dividends returned; dividends = dividends[...] then rebinds
\* the name to a new Series
FrameDividends ==
    /\ framePc = "dividends"
    /\ div_obj' = IF div_obj.dates # <<>> THEN ToUtc(div_obj) ELSE div_obj
    /\ dividends' = IF div_obj.dates # <<>>
                    THEN IndexFrom(ToUtc(div_obj), frame_start)
                    ELSE div_obj
    /\ framePc' = "fcf"
    /\ UNCHANGED <<tbl, fin, cf, given, frame_start>>
    /\ UNCHANGED <<revenue_data, fcf_data, frame_rsi>>
    /\ UNCHANGED notFrame

\* fcf_data = cashflow.loc['Free Cash Flow'], as for the revenue
FrameFcf ==
    /\ framePc = "fcf"
    /\ fcf_data' =
          IF cf.hasRow
          THEN IndexFrom(ToUtc([tz |-> cf.tz, dates |-> cf.dates]), frame_start)
          ELSE EmptySeries
    /\ framePc' = "filtered"
    /\ FrameUnchangedObjects
    /\ UNCHANGED <<revenue_data, dividends, frame_rsi>>
    /\ UNCHANGED notFrame

FrameNext ==
    FrameCalculateRsi \/ FrameAssignRsi \/ FrameRevenue \/ FrameDividends \/ FrameFcf

\* ------------------------------------------------------ get_economic_data
\* the 'value' of a World Bank observation: null or a number
ObsValues == {NaN, Int2F(1)}

\* observation lists of at most n entries: the request is for every
\* country, so a year can occur more than once, in any position
RECURSIVE ObsLists(_)
ObsLists(n) ==
    IF n = 0 THEN {<<>>}
    ELSE LET r == ObsLists(n - 1)
         IN  r \cup {Append(q, [date |-> d, value |-> v]) :
                        q \in {t \in r : Len(t) = n - 1}, d \in Dates, v \in ObsValues}

Failed == [status |-> "error", obs |-> <<>>]

\* a response: the request or the JSON decoding failed, or the list data[1]
Responses == {Failed} \cup {[status |-> "ok", obs |-> t] : t \in ObsLists(MaxObs)}

\* the return value None
NoTable == [none |-> TRUE, cols |-> {}, rows |-> <<>>]

\* df[['date', 'value']] ... .dropna(): the entries with a value
DropNullObs(t) == BoolIndex(t, [i \in 1..Len(t) |-> ~IsNaN(t[i].value)])

\* the rows of an indexed table with index label d, in their order
RowsAt(t, d) == BoolIndex(t, [i \in 1..Len(t) |-> t[i].date = d])

EconRow(d, gv, fv) == [date |-> d, GDP |-> gv, Inflation |-> fv]

\* a one-column table as rows of the result, the other column missing
GdpRows(g) == [i \in 1..Len(g) |-> EconRow(g[i].date, g[i].value, NaN)]

InflationRows(f) == [i \in 1..Len(f) |-> EconRow(f[i].date, NaN, f[i].value)]

\* every row of gs paired with every row of fs, gs-major
RECURSIVE Pairs(_, _, _)
Pairs(d, gs, fs) ==
    IF gs = <<>> THEN <<>>
    ELSE [j \in 1..Len(fs) |-> EconRow(d, gs[1].value, fs[j].value)]
         \o Pairs(d, Tail(gs), fs)

\* the rows an outer join gives for index label d
OuterAt(g, f, d) ==
    LET gs == RowsAt(g, d)
        fs == RowsAt(f, d)
    IN  IF fs = <<>> THEN GdpRows(gs)
        ELSE IF gs = <<>> THEN InflationRows(fs)
        ELSE Pairs(d, gs, fs)

RECURSIVE OuterFrom(_, _, _)
OuterFrom(g, f, d) ==
    IF d > MaxDate THEN <<>> ELSE OuterAt(g, f, d) \o OuterFrom(g, f, d + 1)

\* pd.merge(economic_df, inflation_df, left_index=True, right_index=True,
\*          how='outer'): the labels of either table in ascending order, and
\* for a label both have, a row for every pair of rows with that label
merge_outer_index(g, f) == OuterFrom(g, f, 1)

\* the table get_economic_data builds from two retrieved lists, None if the
\* result is missing or empty; sort_index() orders it by date
economic_table(gobs, fobs) ==
    LET g    == DropNullObs(gobs)
        f    == DropNullObs(fobs)
        rows == IF gobs # <<>> /\ fobs # <<>> THEN merge_outer_index(g, f)
                ELSE IF gobs # <<>> THEN GdpRows(g)
                ELSE InflationRows(f)
        cols == (IF gobs # <<>> THEN {"GDP"} ELSE {})
                \cup (IF fobs # <<>> THEN {"Inflation"} ELSE {})
    IN  IF gobs = <<>> /\ fobs = <<>> THEN NoTable
        ELSE IF rows = <<>> THEN NoTable
        ELSE [none |-> FALSE, cols |-> cols, rows |-> SortValues(rows)]

\* plot_economic_data: None for a missing or empty table (no rows or no
\* columns), else the traces drawn for the columns of the table
plot_economic_data(df) ==
    IF df.none \/ df.rows = <<>> \/ df.cols = {} THEN "None"
    ELSE IF {"GDP", "Inflation"} \subseteq df.cols THEN "gdp_and_inflation"
    ELSE IF "GDP" \in df.cols THEN "gdp"
    ELSE IF "Inflation" \in df.cols THEN "inflation"
    ELSE "None"

EconIdle ==
    /\ gdp_resp = Failed
    /\ inflation_resp = Failed
    /\ economic_df = NoTable
    /\ econ_fig = "None"
    /\ econPc = "idle"

EconInit ==
    /\ gdp_resp \in Responses
    /\ inflation_resp \in Responses
    /\ economic_df = NoTable
    /\ econ_fig = "None"
    /\ econPc = "call"

\* get_economic_data(start_date, end_date)
GetEconomicData ==
    /\ econPc = "call"
    /\ economic_df' =
          IF gdp_resp.status = "error" \/ inflation_resp.status = "error" THEN NoTable
          ELSE economic_table(gdp_resp.obs, inflation_resp.obs)
    /\ econPc' = "returned"
    /\ UNCHANGED <<gdp_resp, inflation_resp, econ_fig>>
    /\ UNCHANGED notEcon

\* main: if economic_df is not None: plot_economic_data(economic_df)
MainEconomic ==
    /\ econPc = "returned"
    /\ econ_fig' = IF ~economic_df.none THEN plot_economic_data(economic_df)
                   ELSE "None"
    /\ econPc' = "main_done"
    /\ UNCHANGED <<gdp_resp, inflation_resp, economic_df>>
    /\ UNCHANGED notEcon

EconNext == GetEconomicData \/ MainEconomic

\* ---------------------------------------------------------- chat assistant
\* the function declarations given to GenerativeModel(tools=[...])
DeclaredTools == {"get_stock_price", "get_company_info", "get_historical_data"}

tool_functions_price_only == [n \in {"get_stock_price"} |-> n]

\* the dispatcher's map from tool name to function
tool_functions ==
    [n \in {"get_stock_price", "get_company_info", "get_historical_data"} |-> n]

\* names a function_call part can carry: the declared ones and one that is not
CallNames == DeclaredTools \cup {"unknown_tool"}

Inputs == {"price of GOOGL", "tell me about AAPL"}

TextPart == [kind |-> "text", name |-> "", args_ok |-> TRUE]

\* a part of the model's response; args_ok is whether the call's arguments
\* match the tool function's signature
ResponseParts ==
    {TextPart} \cup [kind : {"function_call"}, name : CallNames, args_ok : BOOLEAN]

\* send_message raised, or a response with its parts
ModelResponses ==
    {[raised |-> TRUE, parts |-> <<>>]}
    \cup {[raised |-> FALSE, parts |-> p] : p \in SeqsUpTo(ResponseParts, MaxParts)}

\* the outcome of sending the tool responses back: a text, or an exception
FinalResponses == {"text", "exception"}

UserEntry(input) == [role |-> "user", text |-> input, name |-> "", found |-> TRUE]

ModelEntry(text) == [role |-> "model", text |-> text, name |-> "", found |-> TRUE]

\* genai.protos.Part(function_response=...), appended as it is
FunctionResponsePart(n, found) ==
    [role |-> "function_response", text |-> "", name |-> n, found |-> found]

\* where the script runner ends the handler because another widget event
\* came in: at st.chat_message / st.spinner (lines 171, 173), at the st.info
\* of the k-th part (line 186) or at st.error (line 228); the exception it
\* raises there is not an Exception, so line 227 does not catch it.  The
\* st.chat_message calls of lines 225 and 230 follow the append of the model
\* entry and leave the same chat_history as a completed run.
StopPoints ==
    {[at |-> "none", k |-> 0], [at |-> "chat_message", k |-> 0],
     [at |-> "error", k |-> 0]}
    \cup {[at |-> "info", k |-> k] : k \in 1..MaxParts}

\* one pass of the loop body over a part: a text part is skipped; for a
\* function call st.info comes first (stop: the run ends there), then a known
\* tool is called (a call whose arguments do not fit raises) and an unknown
\* name gets the not-found error; each answered call adds a Part to
\* chat_history and an item to tool_responses
Step_AbortUnknown(acc, part, stop) ==
    IF part.kind # "function_call" THEN acc
    ELSE IF stop THEN [acc EXCEPT !.stopped = TRUE]
    ELSE IF part.name \in DOMAIN tool_functions
    THEN IF part.args_ok
         THEN [acc EXCEPT !.entries = Append(@, FunctionResponsePart(part.name, TRUE)),
                          !.executed = Append(@, part.name)]
         ELSE [acc EXCEPT !.raised = TRUE]
    ELSE [acc EXCEPT !.raised = TRUE]

Step(acc, part, stop) ==
    IF part.kind # "function_call" THEN acc
    ELSE IF stop THEN [acc EXCEPT !.stopped = TRUE]
    ELSE IF part.name \in DOMAIN tool_functions
    THEN IF part.args_ok
         THEN [acc EXCEPT !.entries = Append(@, FunctionResponsePart(part.name, TRUE)),
                          !.executed = Append(@, part.name)]
         ELSE [acc EXCEPT !.raised = TRUE]
    ELSE [acc EXCEPT !.entries = Append(@, FunctionResponsePart(part.name, FALSE))]

\* the loop over response.candidates[0].content.parts, left at the first
\* part that raises or at which the run is stopped; k counts the parts down
\* to the one whose st.info stops the run (none if k is never 1)
RECURSIVE ProcessParts(_, _, _)
ProcessParts(parts, acc, k) ==
    IF parts = <<>> \/ acc.raised \/ acc.stopped THEN acc
    ELSE ProcessParts(Tail(parts), Step(acc, Head(parts), k = 1), k - 1)

NoParts == [entries |-> <<>>, executed |-> <<>>, raised |-> FALSE, stopped |-> FALSE]

\* the parts loop of a response under a stop point
Processed(resp, stop) ==
    ProcessParts(resp.parts, NoParts, IF stop.at = "info" THEN stop.k ELSE 0)

HasText(parts) == \E i \in 1..Len(parts) : parts[i].kind = "text"

\* the second send_message (line 217) is reached
Sent(resp, stop) ==
    LET r == Processed(resp, stop)
    IN  /\ stop.at # "chat_message"
        /\ ~resp.raised /\ ~r.raised /\ ~r.stopped
        /\ r.entries # <<>>

\* an exception reaches the except clause of line 227: from either
\* send_message, from a tool call, or from .text of a response without text
Caught(resp, final, stop) ==
    LET r == Processed(resp, stop)
    IN  /\ stop.at # "chat_message"
        /\ \/ resp.raised
           \/ /\ ~r.stopped
              /\ \/ r.raised
                 \/ Sent(resp, stop) /\ final = "exception"
                 \/ r.entries = <<>> /\ ~HasText(resp.parts)

\* the run is ended at the stop point: the point is one the run comes to
Interrupted(resp, final, stop) ==
    \/ stop.at = "chat_message"
    \/ ~resp.raised /\ Processed(resp, stop).stopped
    \/ stop.at = "error" /\ Caught(resp, final, stop)

\* the tool functions run during the handler
Executed(resp, stop) ==
    IF stop.at = "chat_message" \/ resp.raised THEN <<>>
    ELSE Processed(resp, stop).executed

\* tool_responses as passed to the second send_message; empty if none is sent
FollowUp(resp, stop) ==
    LET r == Processed(resp, stop)
    IN  IF ~Sent(resp, stop) THEN <<>>
        ELSE [i \in 1..Len(r.entries) |->
                 [name |-> r.entries[i].name, error |-> ~r.entries[i].found]]

\* the chat input handler: chat_history after one submitted input
Exchange(history, input, resp, final, stop) ==
    LET h  == Append(history, UserEntry(input))
        hr == IF resp.raised THEN h ELSE h \o Processed(resp, stop).entries
    IN  IF stop.at = "chat_message" THEN h
        ELSE IF Interrupted(resp, final, stop) THEN hr
        ELSE IF Caught(resp, final, stop) THEN Append(hr, ModelEntry("apology"))
        ELSE Append(hr, ModelEntry("reply"))

\* the display loop: message["role"] of a Part, or part.function_call of a
\* dict part of a model entry, raises
DisplayRaises(history) == \E i \in 1..Len(history) : history[i].role # "user"

UserEntries(history) == {i \in 1..Len(history) : history[i].role = "user"}

ChatIdle ==
    /\ chat_history = <<>>
    /\ response = [raised |-> TRUE, parts |-> <<>>]
    /\ executed = <<>>
    /\ followup = <<>>
    /\ stopped = FALSE
    /\ chatPc = "idle"

ChatInit ==
    /\ chat_history = <<>>
    /\ response = [raised |-> TRUE, parts |-> <<>>]
    /\ executed = <<>>
    /\ followup = <<>>
    /\ stopped = FALSE
    /\ chatPc = "run"

\* a script run from the top down to the chat input: only session_state is
\* kept from the run before
ScriptRun ==
    /\ chatPc = "run"
    /\ chatPc' = IF DisplayRaises(chat_history) THEN "crashed" ELSE "input"
    /\ response' = [raised |-> TRUE, parts |-> <<>>]
    /\ executed' = <<>>
    /\ followup' = <<>>
    /\ stopped' = FALSE
    /\ UNCHANGED chat_history
    /\ UNCHANGED notChat

\* if user_input: ... st.experimental_rerun(), or the rerun the script
\* runner starts when it ends the handler at a stop point
Submit ==
    /\ chatPc = "input"
    /\ Cardinality(UserEntries(chat_history)) < MaxInputs
    /\ \E input \in Inputs, resp \in ModelResponses, final \in FinalResponses,
          stop \in StopPoints :
          /\ chat_history' = Exchange(chat_history, input, resp, final, stop)
          /\ response' = IF stop.at = "chat_message" THEN response ELSE resp
          /\ executed' = Executed(resp, stop)
          /\ followup' = FollowUp(resp, stop)
          /\ stopped' = Interrupted(resp, final, stop)
    /\ chatPc' = "run"
    /\ UNCHANGED notChat

ChatNext == ScriptRun \/ Submit

\* -------------------------------------------------------------- app.py main
Tickers == {"AAPL", "MSFT", "KO"}

LongNames == {"Apple Inc.", "None"}

Interpretations == {"overbought", "oversold", "neutral"}

\* what analyze_stock returns: a 3-tuple with a figure, the 2-tuple of the
\* empty-data return, or the 3-tuple of None of its except branch
AnalyzeResults(run) ==
    [path : {"success"}, len : {3}, fig : {run}, name : LongNames,
     interp : Interpretations]
    \cup {[path |-> "empty", len |-> 2, fig |-> 0, name |-> "None", interp |-> "None"],
          [path |-> "exception", len |-> 3, fig |-> 0, name |-> "None",
           interp |-> "None"]}

SessionState(f, n, r) == [fig |-> f, stock_name |-> n, rsi_interpretation |-> r]

\* session_state after lines 182-187: absent keys are set to None
Defaults(ss) ==
    SessionState(IF ss.fig = -1 THEN 0 ELSE ss.fig,
                 IF ss.stock_name = "absent" THEN "None" ELSE ss.stock_name,
                 IF ss.rsi_interpretation = "absent" THEN "None"
                 ELSE ss.rsi_interpretation)

\* line 196: the tuple assignment; a 2-tuple raises before anything is assigned
Unpack(ss, click, result) ==
    IF click /\ result.len = 3
    THEN SessionState(result.fig, result.name, result.interp)
    ELSE ss

\* where the script runner ends main because a widget changed: at st.title
\* (line 180), at the sidebar widgets (190-193), at the interpretation
\* header or text (200-204), at st.header (208) or at st.pyplot (209).  The
\* st.error calls of analyze_stock and of line 198 come with session_state as
\* at the interpretation.
MainStops == {"none", "title", "options", "interpretation", "header", "pyplot"}

\* the text of lines 201-204
SidebarText(a) ==
    IF a.rsi_interpretation # "None" THEN a.rsi_interpretation ELSE "placeholder"

\* main(): session_state at its end, the sidebar text, the name in the header
\* and the figure drawn; called is whether analyze_stock was called, stopped
\* whether the run ended at the stop point
main(ss, click, result, stop) ==
    LET d == Defaults(ss)
        a == Unpack(d, click, result)
        nothing == [ss |-> ss, info |-> "None", header |-> "None", failed |-> FALSE,
                    shown |-> 0, called |-> FALSE, stopped |-> TRUE]
        assigned == [nothing EXCEPT !.ss = a, !.called = click,
                                    !.failed = click /\ result.len # 3]
    IN  IF stop = "title" THEN nothing
        ELSE IF stop = "options" THEN [nothing EXCEPT !.ss = d]
        ELSE IF stop = "interpretation" THEN assigned
        ELSE IF stop = "header" /\ a.fig # 0 /\ a.stock_name # "None"
        THEN [assigned EXCEPT !.info = SidebarText(a)]
        ELSE IF stop = "pyplot" /\ a.fig # 0
        THEN [assigned EXCEPT !.info = SidebarText(a), !.header = a.stock_name]
        ELSE [ss     |-> IF a.fig # 0 THEN SessionState(0, "None", "None") ELSE a,
              info   |-> SidebarText(a),
              header |-> IF a.fig # 0 THEN a.stock_name ELSE "None",
              failed |-> click /\ result.len # 3,
              shown  |-> a.fig,
              called |-> click,
              stopped |-> FALSE]

MainIdle ==
    /\ fig = -1
    /\ stock_name = "absent"
    /\ rsi_interpretation = "absent"
    /\ shown = 0
    /\ header = "None"
    /\ sidebar_info = "None"
    /\ ticker = ""
    /\ clicked = FALSE
    /\ returned = "none"
    /\ unpack_failed = FALSE
    /\ interrupted = FALSE
    /\ runs = -1

\* a new session: no key is in session_state
MainInit ==
    /\ fig = -1
    /\ stock_name = "absent"
    /\ rsi_interpretation = "absent"
    /\ shown = 0
    /\ header = "None"
    /\ sidebar_info = "None"
    /\ ticker = ""
    /\ clicked = FALSE
    /\ returned = "none"
    /\ unpack_failed = FALSE
    /\ interrupted = FALSE
    /\ runs = 0

\* one execution of main, with or without a click on Analyze, run to its end
\* or ended at a stop point
Main ==
    /\ runs < MaxRuns
    /\ runs' = runs + 1
    /\ \E t \in Tickers, click \in BOOLEAN, result \in AnalyzeResults(runs + 1),
          stop \in MainStops :
          LET m == main(SessionState(fig, stock_name, rsi_interpretation), click,
                        result, stop)
          IN  /\ fig' = m.ss.fig
              /\ stock_name' = m.ss.stock_name
              /\ rsi_interpretation' = m.ss.rsi_interpretation
              /\ shown' = m.shown
              /\ header' = m.header
              /\ sidebar_info' = m.info
              /\ ticker' = t
              /\ clicked' = click
              /\ returned' = IF m.called THEN result.path ELSE "none"
              /\ unpack_failed' = m.failed
              /\ interrupted' = m.stopped
    /\ UNCHANGED notMain

MainNext == Main

\* -------------------------------------------------------- tool functions
\* the keys get_company_info reads from ticker.info
InfoKeys ==
    {"shortName", "sector", "industry", "fullTimeEmployees", "website",
     "longBusinessSummary"}

\* what the provider does for one call: ticker.history / ticker.info returns
\* data, returns nothing (an empty frame, an empty dict), or raises.
\* index_name is the name of the frame's index ("Date" for daily bars,
\* "Datetime" for intraday bars); present is the keys ticker.info carries
ProviderOutcomes ==
    [kind : {"data"}, close : SeqsUpTo(Prices, MaxBars) \ {<<>>},
     index_name : {"Date", "Datetime"}, present : {{}}]
    \cup [kind : {"data"}, close : {<<>>}, index_name : {"Date"},
          present : (SUBSET InfoKeys) \ {{}}]
    \cup [kind : {"empty", "exception"}, close : {<<>>}, index_name : {"Date"},
          present : {{}}]

\* a returned JSON object string: its keys, and the values the model tracks
JsonObject(keys, price, nulls) ==
    [raised |-> FALSE, keys |-> keys, current_price |-> price, nulls |-> nulls]

ErrorObject == JsonObject({"error"}, <<>>, {})

Raised == [raised |-> TRUE, keys |-> {}, current_price |-> <<>>, nulls |-> {}]

\* f"{current_price:.2f}": the whole part and two decimals
Format2f(p) == <<p, 0, 0>>

get_stock_price_NoExcept(ticker_symbol, p) ==
    IF p.kind = "exception" THEN Raised
    ELSE IF p.close # <<>>
    THEN JsonObject({"ticker", "current_price"}, Format2f(p.close[Len(p.close)]), {})
    ELSE ErrorObject

get_stock_price(ticker_symbol, p) ==
    IF p.kind = "exception" THEN ErrorObject
    ELSE IF p.close # <<>>
    THEN JsonObject({"ticker", "current_price"}, Format2f(p.close[Len(p.close)]), {})
    ELSE ErrorObject

\* info.get(key) is None for a key ticker.info does not carry
get_company_info(ticker_symbol, p) ==
    IF p.kind = "exception" THEN ErrorObject
    ELSE JsonObject(InfoKeys, <<>>, InfoKeys \ p.present)

\* json.dumps raises on the Timestamp left in a record whose index column is
\* not named 'Date'; the except branch turns that into the error object
get_historical_data(ticker_symbol, p) ==
    IF p.kind = "exception" THEN ErrorObject
    ELSE IF p.close # <<>>
    THEN IF p.index_name = "Date"
         THEN JsonObject({"ticker", "period", "interval", "data"}, <<>>, {})
         ELSE ErrorObject
    ELSE ErrorObject

ToolsIdle ==
    /\ tool_name = ""
    /\ tool_ticker = ""
    /\ provider = [kind |-> "empty", close |-> <<>>, index_name |-> "Date", present |-> {}]
    /\ tool_output = Raised
    /\ toolPc = "idle"

ToolsInit ==
    /\ tool_name \in DOMAIN tool_functions
    /\ tool_ticker \in Tickers
    /\ provider \in ProviderOutcomes
    /\ tool_output = Raised
    /\ toolPc = "call"

GetStockPrice ==
    /\ toolPc = "call"
    /\ tool_name = "get_stock_price"
    /\ tool_output' = get_stock_price(tool_ticker, provider)
    /\ toolPc' = "returned"
    /\ UNCHANGED <<tool_name, tool_ticker, provider>>
    /\ UNCHANGED notTools

GetCompanyInfo ==
    /\ toolPc = "call"
    /\ tool_name = "get_company_info"
    /\ tool_output' = get_company_info(tool_ticker, provider)
    /\ toolPc' = "returned"
    /\ UNCHANGED <<tool_name, tool_ticker, provider>>
    /\ UNCHANGED notTools

GetHistoricalData ==
    /\ toolPc = "call"
    /\ tool_name = "get_historical_data"
    /\ tool_output' = get_historical_data(tool_ticker, provider)
    /\ toolPc' = "returned"
    /\ UNCHANGED <<tool_name, tool_ticker, provider>>
    /\ UNCHANGED notTools

ToolsNext == GetStockPrice \/ GetCompanyInfo \/ GetHistoricalData

\* ------------------------------------------------------------ interpret_rsi
\* the argument None
NoneValue == [k |-> "none", n |-> 0, d |-> 1]

\* x > y, x < y, x >= y, x <= y on floats: False whenever an operand is NaN
\* (an RSI is NaN or finite, never infinite)
GtF(x, y) == ~IsNaN(x) /\ ~IsNaN(y) /\ LtF(y, x)

LessF(x, y) == ~IsNaN(x) /\ ~IsNaN(y) /\ LtF(x, y)

GeF(x, y) == ~IsNaN(x) /\ ~IsNaN(y) /\ LeqF(y, x)

LeF(x, y) == ~IsNaN(x) /\ ~IsNaN(y) /\ LeqF(x, y)

interpret_rsi_Inclusive(rsi_value) ==
    IF rsi_value # NoneValue
    THEN IF GeF(rsi_value, Int2F(70)) THEN "overbought"
         ELSE IF LeF(rsi_value, Int2F(30)) THEN "oversold"
         ELSE IF GtF(rsi_value, Int2F(50)) /\ LeF(rsi_value, Int2F(70)) THEN "upward"
         ELSE IF GeF(rsi_value, Int2F(30)) /\ LessF(rsi_value, Int2F(50)) THEN "downward"
         ELSE "neutral"
    ELSE "not_available"

\* interpret_rsi(rsi_value): which of its six sentences it returns
interpret_rsi(rsi_value) ==
    IF rsi_value # NoneValue
    THEN IF GtF(rsi_value, Int2F(70)) THEN "overbought"
         ELSE IF LessF(rsi_value, Int2F(30)) THEN "oversold"
         ELSE IF GtF(rsi_value, Int2F(50)) /\ LeF(rsi_value, Int2F(70)) THEN "upward"
         ELSE IF GeF(rsi_value, Int2F(30)) /\ LessF(rsi_value, Int2F(50)) THEN "downward"
         ELSE "neutral"
    ELSE "not_available"

\* numeric RSI values in [0, 100], in steps of 1/RsiDenominator
RsiValues == {Num(n, RsiDenominator) : n \in 0..(100 * RsiDenominator)}

\* latest_data['RSI'].iloc[0] if not latest_data.empty else None
LatestRsi(c, w) ==
    IF c = <<>> THEN NoneValue ELSE calculate_rsi(c, w)[Len(c)]

InterpIdle ==
    /\ interp_close = <<>>
    /\ interp_window = 0
    /\ latest_rsi = NoneValue
    /\ rsi_interpretation_text = ""
    /\ interpPc = "idle"

InterpInit ==
    /\ \/ /\ interpPc = "value"
          /\ latest_rsi \in RsiValues \cup {NoneValue}
          /\ interp_close = <<>>
          /\ interp_window = 0
       \/ /\ interpPc = "table"
          /\ latest_rsi = NoneValue
          /\ \/ interp_close \in SmallSeries \ {<<>>} /\ interp_window \in 1..MaxWindow
             \/ interp_close \in Scenarios /\ interp_window = DefaultRsiWindow
    /\ rsi_interpretation_text = ""

\* interpret_rsi applied to a value
InterpretRsi ==
    /\ interpPc = "value"
    /\ rsi_interpretation_text' = interpret_rsi(latest_rsi)
    /\ interpPc' = "interpreted"
    /\ UNCHANGED <<interp_close, interp_window, latest_rsi>>
    /\ UNCHANGED notInterp

\* analyze_stock: the RSI of the last row and its interpretation
AnalyzeLatest ==
    /\ interpPc = "table"
    /\ latest_rsi' = LatestRsi(interp_close, interp_window)
    /\ rsi_interpretation_text' = interpret_rsi(LatestRsi(interp_close, interp_window))
    /\ interpPc' = "analyzed"
    /\ UNCHANGED <<interp_close, interp_window>>
    /\ UNCHANGED notInterp

InterpNext == InterpretRsi \/ AnalyzeLatest

\* ------------------------------------------------------ fetch_fed_rate_data
\* the hard-coded rate list, one rate per year from 2000
HardCodedRates ==
    <<Num(650, 100), Num(600, 100), Num(175, 100), Num(100, 100), Num(200, 100),
      Num(325, 100), Num(0, 100), Num(25, 100), Num(50, 100), Num(200, 100),
      Num(225, 100), Num(25, 100), Num(10, 100), Num(25, 100), Num(75, 100),
      Num(150, 100), Num(250, 100), Num(225, 100), Num(450, 100), Num(475, 100),
      Num(500, 100), Num(550, 100), Num(500, 100), Num(525, 100), Num(550, 100)>>

\* the end of the date range: the literal's year and month, or a later one
EndDates == [year : EndYear..(EndYear + MaxExtraYears), month : 1..12]

\* pd.date_range(start='2000-01-01', end=..., freq='AS'): the first day of
\* every year from the start year to the end's year
date_range_AS(end) == [i \in 1..(end.year - StartYear + 1) |-> StartYear + i - 1]

Nones(k) == [i \in 1..k |-> NaN]

\* pd.DataFrame({'Date': dates, 'Rate': rates}): raises on unequal lengths
DataFrame(dates, rates) ==
    IF Len(dates) # Len(rates)
    THEN [raised |-> TRUE, reported |-> FALSE, rows |-> <<>>]
    ELSE [raised |-> FALSE, reported |-> FALSE,
          rows |-> [i \in 1..Len(dates) |-> [date |-> dates[i], rate |-> rates[i]]]]

fetch_fed_rate_data_NoPadding(end) ==
    DataFrame(date_range_AS(end), HardCodedRates)

\* the padding variant
fetch_fed_rate_data(end) ==
    LET dates == date_range_AS(end)
        rates == IF Len(HardCodedRates) < Len(dates)
                 THEN HardCodedRates \o Nones(Len(dates) - Len(HardCodedRates))
                 ELSE HardCodedRates
    IN  DataFrame(dates, rates)

fetch_fed_rate_data_checked_NoTry(end) ==
    LET dates == date_range_AS(end)
    IN  IF Len(dates) # Len(HardCodedRates)
        THEN [raised |-> TRUE, reported |-> FALSE, rows |-> <<>>]
        ELSE DataFrame(dates, HardCodedRates)

\* the length-checking variant: the ValueError is caught, reported with
\* st.error, and an empty DataFrame is returned
fetch_fed_rate_data_checked(end) ==
    LET dates == date_range_AS(end)
    IN  IF Len(dates) # Len(HardCodedRates)
        THEN [raised |-> FALSE, reported |-> TRUE, rows |-> <<>>]
        ELSE DataFrame(dates, HardCodedRates)

NoFedTable == [raised |-> FALSE, reported |-> FALSE, rows |-> <<>>]

FedIdle ==
    /\ fed_variant = "none"
    /\ fed_end = [year |-> 0, month |-> 0]
    /\ fed_table = NoFedTable
    /\ fed_shown = {}
    /\ fedPc = "idle"

FedInit ==
    /\ fed_variant \in {"padding", "checking"}
    /\ fed_end \in EndDates
    /\ fed_table = NoFedTable
    /\ fed_shown = {}
    /\ fedPc = "start"

\* main, padding variant: st.title and st.write (at which the script runner
\* can end the run), then fed_data = fetch_fed_rate_data()
FetchPadding ==
    /\ fedPc = "start"
    /\ fed_variant = "padding"
    /\ \E stop \in {"none", "title"} :
          IF stop = "title"
          THEN fed_table' = fed_table /\ fedPc' = "stopped"
          ELSE fed_table' = fetch_fed_rate_data(fed_end) /\ fedPc' = "fetched"
    /\ UNCHANGED <<fed_variant, fed_end, fed_shown>>
    /\ UNCHANGED notFed

\* main, length-checking variant: st.title and st.write, then the fetch; a
\* run ended at the st.error of the except clause (line 104) returns nothing
FetchChecking ==
    /\ fedPc = "start"
    /\ fed_variant = "checking"
    /\ \E stop \in {"none", "title", "error"} :
          LET t == fetch_fed_rate_data_checked(fed_end)
          IN  IF stop = "title" \/ (stop = "error" /\ t.reported)
              THEN fed_table' = fed_table /\ fedPc' = "stopped"
              ELSE fed_table' = t /\ fedPc' = "fetched"
    /\ UNCHANGED <<fed_variant, fed_end, fed_shown>>
    /\ UNCHANGED notFed

\* the st calls of main after the fetch at which the run can be ended:
\* st.line_chart, st.write, st.dataframe, st.warning
FedStops == {"none", "line_chart", "write", "dataframe", "warning"}

\* main: chart, caption and table for a non-empty table, the warning
\* otherwise, each by its own st call; a run ended at one of them has shown
\* what came before it; an exception out of the fetch ends the run before
\* anything is shown
MainFedRate ==
    /\ fedPc = "fetched"
    /\ \E stop \in FedStops :
          IF fed_table.raised
          THEN fed_shown' = {} /\ fedPc' = "main_done"
          ELSE IF fed_table.rows # <<>>
          THEN IF stop = "line_chart"
               THEN fed_shown' = {} /\ fedPc' = "stopped"
               ELSE IF stop = "write"
               THEN fed_shown' = {"line_chart"} /\ fedPc' = "stopped"
               ELSE IF stop = "dataframe"
               THEN fed_shown' = {"line_chart", "caption"} /\ fedPc' = "stopped"
               ELSE /\ fed_shown' = {"line_chart", "caption", "dataframe"}
                    /\ fedPc' = "main_done"
          ELSE IF stop = "warning"
               THEN fed_shown' = {} /\ fedPc' = "stopped"
               ELSE fed_shown' = {"warning"} /\ fedPc' = "main_done"
    /\ UNCHANGED <<fed_variant, fed_end, fed_table>>
    /\ UNCHANGED notFed

FedNext == FetchPadding \/ FetchChecking \/ MainFedRate

\* ---------------------------------------------------------- specifications
Init ==
    IndInit /\ AlignIdle /\ FilterIdle /\ FrameIdle /\ EconIdle /\ ChatIdle
    /\ MainIdle /\ ToolsIdle /\ InterpIdle /\ FedIdle

Next == IndNext

Spec == Init /\ [][Next]_vars

InitAlign ==
    AlignInit /\ IndIdle /\ FilterIdle /\ FrameIdle /\ EconIdle /\ ChatIdle
    /\ MainIdle /\ ToolsIdle /\ InterpIdle /\ FedIdle

SpecAlign == InitAlign /\ [][AlignNext]_vars

InitFilter ==
    FilterInit /\ IndIdle /\ AlignIdle /\ FrameIdle /\ EconIdle /\ ChatIdle
    /\ MainIdle /\ ToolsIdle /\ InterpIdle /\ FedIdle

SpecFilter == InitFilter /\ [][FilterNext]_vars

InitFrame ==
    FrameInit /\ IndIdle /\ AlignIdle /\ FilterIdle /\ EconIdle /\ ChatIdle
    /\ MainIdle /\ ToolsIdle /\ InterpIdle /\ FedIdle

SpecFrame == InitFrame /\ [][FrameNext]_vars

InitEcon ==
    EconInit /\ IndIdle /\ AlignIdle /\ FilterIdle /\ FrameIdle /\ ChatIdle
    /\ MainIdle /\ ToolsIdle /\ InterpIdle /\ FedIdle

SpecEcon == InitEcon /\ [][EconNext]_vars

InitChat ==
    ChatInit /\ IndIdle /\ AlignIdle /\ FilterIdle /\ FrameIdle /\ EconIdle
    /\ MainIdle /\ ToolsIdle /\ InterpIdle /\ FedIdle

SpecChat == InitChat /\ [][ChatNext]_vars

InitMain ==
    MainInit /\ IndIdle /\ AlignIdle /\ FilterIdle /\ FrameIdle /\ EconIdle
    /\ ChatIdle /\ ToolsIdle /\ InterpIdle /\ FedIdle

SpecMain == InitMain /\ [][MainNext]_vars

InitTools ==
    ToolsInit /\ IndIdle /\ AlignIdle /\ FilterIdle /\ FrameIdle /\ EconIdle
    /\ ChatIdle /\ MainIdle /\ InterpIdle /\ FedIdle

SpecTools == InitTools /\ [][ToolsNext]_vars

InitInterp ==
    InterpInit /\ IndIdle /\ AlignIdle /\ FilterIdle /\ FrameIdle /\ EconIdle
    /\ ChatIdle /\ MainIdle /\ ToolsIdle /\ FedIdle

SpecInterp == InitInterp /\ [][InterpNext]_vars

InitFed ==
    FedInit /\ IndIdle /\ AlignIdle /\ FilterIdle /\ FrameIdle /\ EconIdle
    /\ ChatIdle /\ MainIdle /\ ToolsIdle /\ InterpIdle

SpecFed == InitFed /\ [][FedNext]_vars

\* ------------------------------------------------- reference quantities
\* close[a] + ... + close[b]
RECURSIVE SumClose(_, _, _)
SumClose(c, a, b) == IF a > b THEN 0 ELSE c[b] + SumClose(c, a, b - 1)

Max0(x) == IF x > 0 THEN x ELSE 0

\* sum over t in a..b of max(close[t] - close[t-1], 0), a >= 2
RECURSIVE SumGain(_, _, _)
SumGain(c, a, b) ==
    IF a > b THEN 0 ELSE Max0(c[b] - c[b - 1]) + SumGain(c, a, b - 1)

\* sum over t in a..b of max(close[t-1] - close[t], 0), a >= 2
RECURSIVE SumLoss(_, _, _)
SumLoss(c, a, b) ==
    IF a > b THEN 0 ELSE Max0(c[b - 1] - c[b]) + SumLoss(c, a, b - 1)

\* positions (1-based) whose RSI window holds `window` price changes
FullRsi == {j \in 1..Len(close) : j >= window + 1}

Flat(c) == \A i \in 1..Len(c) : c[i] = c[1]

Increasing(c) == \A i \in 2..Len(c) : c[i - 1] < c[i]

Decreasing(c) == \A i \in 2..Len(c) : c[i - 1] > c[i]

MaDone == pc \in {"ma", "done"}

\* ------------------------------------------------------------------ claims

\* C1: for w <= len(s) the moving average has the length of s; every
\* 0-based position i >= w-1 holds the arithmetic mean of s[i-w+1..i] and
\* every position i < w-1 is undefined.
C1_MovingAverage ==
    (MaDone /\ maWindow <= Len(close)) =>
        /\ Len(ma) = Len(close)
        /\ \A j \in 1..Len(close) :
              IF j >= maWindow
              THEN ma[j] = Num(SumClose(close, j - maWindow + 1, j), maWindow)
              ELSE IsNaN(ma[j])

C1_Witness ==
    /\ pc = "ma"
    /\ maWindow = 3
    /\ close = <<1, 3, 2, 3>>
    /\ IsNaN(ma[2])
    /\ ma[3] = Int2F(2)
    /\ ma[4] = Num(8, 3)

\* C2: at every position whose window is full and whose average loss is
\* positive, RSI = 100 - 100/(1 + avg_gain/avg_loss), that is
\* rsi * (sumGain + sumLoss) = 100 * sumGain.
C2_RsiFormula ==
    pc = "done" =>
        \A j \in FullRsi :
            LET g == SumGain(close, j - window + 1, j)
                l == SumLoss(close, j - window + 1, j)
            IN  l > 0 =>
                  /\ IsNum(rsi[j])
                  /\ rsi[j].n * (g + l) = 100 * g * rsi[j].d
                  /\ rsi[j] = Sub(Int2F(100),
                                  Div(Int2F(100),
                                      Add(Int2F(1), Div(Num(g, window), Num(l, window)))))

C2_Witness ==
    /\ pc = "done"
    /\ close = <<1, 3, 2, 3>>
    /\ window = 3
    /\ rsi[4] = Int2F(75)

\* C3: for a constant close series the RSI at every full-window position is
\* defined and equals 50.
C3_FlatIsFifty ==
    (pc = "done" /\ Flat(close)) =>
        \A j \in FullRsi : rsi[j] = Int2F(50)

\* C4: when the trailing window has avg_loss = 0 and avg_gain > 0 the RSI is
\* exactly 100, a finite value.
C4_NoLossIsHundred ==
    pc = "done" =>
        \A j \in FullRsi :
            (SumLoss(close, j - window + 1, j) = 0
                /\ SumGain(close, j - window + 1, j) > 0)
            => rsi[j] = Int2F(100)

C4_Witness ==
    /\ pc = "done"
    /\ close = RisingScenario
    /\ Increasing(close)
    /\ rsi[DefaultRsiWindow + 1] = Int2F(100)

\* C5: for every series of positive closes the RSI at every full-window
\* position is a defined finite number.
C5_RsiAlwaysFinite ==
    pc = "done" => \A j \in FullRsi : IsNum(rsi[j])

\* C6: the RSI output is aligned 1:1 with the input and every defined value
\* lies in [0, 100].
C6_RsiRange ==
    pc = "done" =>
        /\ Len(rsi) = Len(close)
        /\ \A j \in 1..Len(rsi) :
              \/ IsNaN(rsi[j])
              \/ /\ IsNum(rsi[j])
                 /\ LeqF(Int2F(0), rsi[j])
                 /\ LeqF(rsi[j], Int2F(100))

C6_Witness ==
    /\ pc = "done"
    /\ Len(close) = MaxLen
    /\ Len(rsi) = MaxLen
    /\ \E j \in 1..Len(rsi) :
          IsNum(rsi[j]) /\ LtF(Int2F(0), rsi[j]) /\ LtF(rsi[j], Int2F(100))

\* C7: for a strictly decreasing close series the RSI is 0 at every defined
\* position.
C7_DecreasingIsZero ==
    (pc = "done" /\ Decreasing(close)) =>
        \A j \in 1..Len(rsi) : ~IsNaN(rsi[j]) => rsi[j] = Int2F(0)

C7_Witness ==
    /\ pc = "done"
    /\ close = FallingScenario
    /\ Decreasing(close)
    /\ rsi[DefaultRsiWindow + 1] = Int2F(0)

\* C8: the first `window` positions of the RSI output (0-based 0..window-1)
\* are undefined; the first position that can be defined is index `window`.
C8_FirstWindowUndefined ==
    pc = "done" =>
        \A j \in 1..Len(rsi) : j <= window => IsNaN(rsi[j])

\* C9 (as claimed): index window-1 is the first defined position; for
\* close = [1..15] and window = 14, rsi[13] (0-based) equals 100.
C9_DefinedAtWindowMinusOne ==
    (pc = "done" /\ close = RisingScenario /\ window = DefaultRsiWindow) =>
        rsi[DefaultRsiWindow] = Int2F(100)

\* C9 (amended): calculate_rsi has no value for the first `window`
\* observations, so 0-based index `window` is its first defined position; for
\* close = [1..15] and window = 14, rsi[13] is undefined and rsi[14] is 100.
C9_DefinedFromWindow ==
    (pc = "done" /\ rsiBy = "calculate_rsi") =>
        /\ \A j \in 1..Len(rsi) : j <= window => IsNaN(rsi[j])
        /\ (close = RisingScenario /\ window = DefaultRsiWindow) =>
              /\ IsNaN(rsi[DefaultRsiWindow])
              /\ rsi[DefaultRsiWindow + 1] = Int2F(100)

C9_Witness ==
    /\ pc = "done"
    /\ rsiBy = "calculate_rsi"
    /\ close = RisingScenario
    /\ window = DefaultRsiWindow
    /\ IsNaN(rsi[DefaultRsiWindow])
    /\ IsNum(rsi[DefaultRsiWindow + 1])

\* C10: when the moving-average or RSI window exceeds the length of the
\* series, the indicator is computed without failure and every position of
\* it is undefined.
C10_WindowTooLarge ==
    /\ (MaDone /\ maWindow > Len(close)) =>
          /\ Len(ma) = Len(close)
          /\ \A j \in 1..Len(ma) : IsNaN(ma[j])
    /\ (pc = "done" /\ window > Len(close)) =>
          /\ Len(rsi) = Len(close)
          /\ \A j \in 1..Len(rsi) : IsNaN(rsi[j])

C10_Witness ==
    /\ pc = "done"
    /\ Len(close) = 2
    /\ window > Len(close)
    /\ maWindow > Len(close)
    /\ Len(ma) = 2
    /\ Len(rsi) = 2

\* the rows of fed_data dated on or before d
FedUpTo(d) == {j \in 1..Len(fed_data) : fed_data[j].date <= d}

\* the latest of them
LatestFed(d) ==
    CHOOSE j \in FedUpTo(d) : \A k \in FedUpTo(d) : fed_data[k].date <= fed_data[j].date

Merged == alignPc = "merged"

\* C11: in the aligned table the auxiliary value at each primary date d is
\* the auxiliary observation with the latest date <= d; it is undefined when
\* the auxiliary series starts after d, and is never taken from an
\* observation dated after d.
C11_ForwardFill ==
    Merged =>
        /\ \A i \in 1..Len(combined_data) :
              LET row == combined_data[i]
              IN  IF FedUpTo(row.date) = {}
                  THEN row.fdate = NaT /\ IsNaN(row.rate)
                  ELSE /\ row.fdate = fed_data[LatestFed(row.date)].date
                       /\ row.rate = fed_data[LatestFed(row.date)].rate
                       /\ row.fdate <= row.date
        /\ (stock_data = ScenarioStock /\ fed_data = ScenarioFed) =>
              [i \in 1..10 |-> combined_data[i].rate]
                 = [i \in 1..10 |-> IF i < 5 THEN Int2F(5) ELSE Int2F(7)]

C11_Witness ==
    /\ alignPc = "merged"
    /\ \E i \in 1..Len(combined_data) : combined_data[i].fdate = NaT
    /\ \E i \in 1..Len(combined_data) :
          /\ combined_data[i].fdate # NaT
          /\ combined_data[i].fdate < combined_data[i].date
          /\ IsNum(combined_data[i].rate)
    /\ \E j \in 1..Len(fed_data) : \A i \in 1..Len(stock_data) :
          fed_data[j].date > stock_data[i].date

\* the join of main, with its one rate table: one row per stock date, in
\* ascending date order, none for a date only the rate table has
OneRowPerStockDate ==
    Merged =>
        /\ Len(combined_data) = Len(stock_data)
        /\ \A i \in 2..Len(combined_data) :
              combined_data[i - 1].date < combined_data[i].date
        /\ {combined_data[i].date : i \in 1..Len(combined_data)}
              = {stock_data[i].date : i \in 1..Len(stock_data)}
        /\ \A i \in 1..Len(combined_data) :
              \E k \in 1..Len(stock_data) :
                  /\ stock_data[k].date = combined_data[i].date
                  /\ stock_data[k].close = combined_data[i].close

OneRowPerStockDateReached ==
    /\ alignPc = "merged"
    /\ Len(stock_data) = MaxStockRows
    /\ Len(combined_data) = MaxStockRows
    /\ stock_data[1].date > stock_data[2].date
    /\ \E j \in 1..Len(fed_data) : \A i \in 1..Len(stock_data) :
          fed_data[j].date # stock_data[i].date

\* C14: when the primary price series is empty the fetch returns the
\* explicit no-data result (None), no moving average or RSI is computed, and
\* main, branching on the result, draws no chart.
C14_EmptyIsNoData ==
    (close = <<>> /\ pc \in {"nodata", "main_done", "stopped"}) =>
        /\ pc \in {"nodata", "main_done"} => stock_df = "None"
        /\ stock_df # "table"
        /\ ma = <<>>
        /\ rsi = <<>>
        /\ drawn = {}

C14_Witness ==
    /\ pc = "main_done"
    /\ close = <<>>
    /\ stock_df = "None"
    /\ drawn = {}

\* with data, a run ended at the RSI chart has drawn the stock chart only
C14_StockChartOnlyWitness ==
    /\ pc = "stopped"
    /\ close # <<>>
    /\ drawn = {"stock"}

InRange(d) == start_date <= d /\ d <= end_date

Observations(t) == {t[i] : i \in {j \in 1..Len(t) : ~IsNaN(t[j].rate)}}

\* C13: the range filter keeps exactly the observations whose date d
\* satisfies start_date <= d <= end_date, both bounds included, and drops
\* all others, those dated after end_date among them.
C13_RangeFilter ==
    filterBy # "none" =>
        /\ \A i \in 1..Len(filtered) :
              /\ InRange(filtered[i].date)
              /\ \E k \in 1..Len(series) : series[k] = filtered[i]
        /\ Observations(filtered) = {r \in Observations(series) : InRange(r.date)}

\* C16: indicator and alignment operations leave the structures of their
\* caller and of the data provider unchanged: after calculate_rsi the input
\* table has the same columns and values, and after the date filtering of
\* analyze_stock the provider's revenue, dividend and cash-flow series,
\* their date index included, are as they were given.
C16_NoMutation ==
    /\ framePc = "rsi_returned" => tbl = given.tbl
    /\ framePc = "filtered" =>
          /\ fin = given.fin
          /\ div_obj = given.div
          /\ cf = given.cf

HasValue(t) == \E i \in 1..Len(t) : ~IsNaN(t[i].value)

RowDates(t) == {t[i].date : i \in 1..Len(t)}

\* the dates at which a retrieved list has a non-null value
ValueDates(t) == {t[i].date : i \in {j \in 1..Len(t) : ~IsNaN(t[j].value)}}

\* C17: get_economic_data returns a date-sorted table whenever at least one
\* of the two series (GDP, inflation) has a non-null observation, and None
\* only when neither has one; the table has rows for exactly the dates at
\* which either series has a value, every value of either series is in it,
\* and main then draws a chart of the columns the table has.
C17_PartialEconomicData ==
    econPc \in {"returned", "main_done"} =>
        /\ (HasValue(gdp_resp.obs) \/ HasValue(inflation_resp.obs)) <=> ~economic_df.none
        /\ ~economic_df.none =>
              /\ \A i \in 2..Len(economic_df.rows) :
                    economic_df.rows[i - 1].date <= economic_df.rows[i].date
              /\ RowDates(economic_df.rows)
                    = ValueDates(gdp_resp.obs) \cup ValueDates(inflation_resp.obs)
              /\ \A i \in 1..Len(gdp_resp.obs) :
                    ~IsNaN(gdp_resp.obs[i].value) =>
                        \E k \in 1..Len(economic_df.rows) :
                            /\ economic_df.rows[k].date = gdp_resp.obs[i].date
                            /\ economic_df.rows[k].GDP = gdp_resp.obs[i].value
              /\ \A i \in 1..Len(inflation_resp.obs) :
                    ~IsNaN(inflation_resp.obs[i].value) =>
                        \E k \in 1..Len(economic_df.rows) :
                            /\ economic_df.rows[k].date = inflation_resp.obs[i].date
                            /\ economic_df.rows[k].Inflation = inflation_resp.obs[i].value
              /\ econPc = "main_done" => econ_fig # "None"

FunctionNames(f) == DOMAIN f

\* C18 (as stated): the tools declared to the model and the tool names the
\* dispatcher can execute are both exactly the one tool get_stock_price.
C18_SingleTool ==
    /\ \A i \in 1..Len(chat_history) :
          (chat_history[i].role = "function_response" /\ chat_history[i].found) =>
              chat_history[i].name = "get_stock_price"
    /\ DeclaredTools = {"get_stock_price"}
    /\ FunctionNames(tool_functions) = {"get_stock_price"}

\* C18 (amended): the tools declared to the model and the tool names the
\* dispatcher can execute are the same three tools, get_stock_price,
\* get_company_info and get_historical_data; a call of any of them is
\* executed and a call of any other name is answered with a not-found error.
C18_ThreeTools ==
    /\ DeclaredTools = {"get_stock_price", "get_company_info", "get_historical_data"}
    /\ FunctionNames(tool_functions) = DeclaredTools
    /\ \A i \in 1..Len(chat_history) :
          chat_history[i].role = "function_response" =>
              (chat_history[i].found <=> chat_history[i].name \in DeclaredTools)

C18_Witness ==
    /\ \E i \in 1..Len(chat_history) :
          /\ chat_history[i].role = "function_response"
          /\ chat_history[i].name = "get_company_info"
          /\ chat_history[i].found
    /\ \E i \in 1..Len(chat_history) :
          /\ chat_history[i].role = "function_response"
          /\ chat_history[i].name = "unknown_tool"

\* C19: at the end of every execution of main the session keys fig,
\* stock_name and rsi_interpretation hold nothing of an analysis (they are
\* None, or not yet set), and a figure is drawn only in the run whose Analyze
\* click produced it.
C19_NothingPersists ==
    runs > 0 =>
        /\ fig \in {0, -1}
        /\ stock_name \in {"None", "absent"}
        /\ rsi_interpretation \in {"None", "absent"}
        /\ shown # 0 => (clicked /\ shown = runs)
        /\ header # "None" => shown = runs
        /\ sidebar_info # "placeholder" => (clicked /\ shown = runs)

\* a run ended after line 196 leaves the figure in session_state, and the
\* next run, without a click, draws it
C19_StaleFigureWitness ==
    /\ runs = 2
    /\ ~clicked
    /\ ~interrupted
    /\ shown = 1
    /\ header = "Apple Inc."
    /\ sidebar_info = "overbought"

\* a run that is not ended early ends with the three keys None
C19_CompletedRunWitness ==
    /\ runs = 2
    /\ clicked
    /\ ~interrupted
    /\ shown = 2
    /\ sidebar_info = "overbought"
    /\ header = "Apple Inc."
    /\ stock_name = "None"

Role(i) == chat_history[i].role

\* C20: chat_history is a sequence of exchanges, each one user entry, then
\* the tool-response entries, then exactly one model text entry (the reply
\* or the apology); between script runs no user entry lacks its model entry.
C20_UserThenModel ==
    /\ chat_history # <<>> =>
          Role(1) = "user" /\ Role(Len(chat_history)) = "model"
    /\ \A i \in 1..Len(chat_history) :
          /\ Role(i) = "user" =>
                \E j \in (i + 1)..Len(chat_history) :
                    /\ Role(j) = "model"
                    /\ chat_history[j].text \in {"reply", "apology"}
                    /\ \A k \in (i + 1)..(j - 1) : Role(k) = "function_response"
          /\ Role(i) = "model" =>
                \E j \in 1..(i - 1) :
                    /\ Role(j) = "user"
                    /\ \A k \in (j + 1)..(i - 1) : Role(k) = "function_response"

\* a run ended at st.info leaves the user entry and a tool response with no
\* model entry
C20_NoReplyWitness ==
    /\ chatPc = "run"
    /\ stopped
    /\ Len(chat_history) = 2
    /\ Role(1) = "user"
    /\ Role(2) = "function_response"

\* a second input after a run ended at st.chat_message
C20_SecondInputWitness ==
    /\ Len(chat_history) = 3
    /\ Role(1) = "user" /\ Role(2) = "user" /\ Role(3) = "model"
    /\ ~stopped

PayloadKeys ==
    [get_stock_price |-> {"ticker", "current_price"},
     get_company_info |-> InfoKeys,
     get_historical_data |-> {"ticker", "period", "interval", "data"}]

\* C21: for every ticker and every provider outcome (data, empty result,
\* exception) each tool function returns without raising, and what it
\* returns is a JSON object that is either its data payload or an object
\* with the single key "error"; a provider exception always gives the error
\* object.
C21_ToolsNeverRaise ==
    toolPc = "returned" =>
        /\ ~tool_output.raised
        /\ tool_output.keys \in {PayloadKeys[tool_name], {"error"}}
        /\ provider.kind = "exception" => tool_output.keys = {"error"}

C21_Witness ==
    /\ toolPc = "returned"
    /\ tool_name = "get_stock_price"
    /\ provider.kind = "exception"
    /\ tool_output = ErrorObject

IsCall(part) == part.kind = "function_call"

Unknown(part) == IsCall(part) /\ part.name \notin DOMAIN tool_functions

\* the handler ran to its end, no call of a known tool raised and the first
\* send_message returned
NoCallRaised ==
    /\ ~stopped
    /\ ~response.raised
    /\ \A i \in 1..Len(response.parts) :
          (IsCall(response.parts[i]) /\ ~Unknown(response.parts[i])) =>
              response.parts[i].args_ok

Calls == {i \in 1..Len(response.parts) : IsCall(response.parts[i])}

ResponseEntries == {i \in 1..Len(chat_history) : Role(i) = "function_response"}

\* C22: when the model calls a tool whose name is not in tool_functions, no
\* tool function is run for that call, a not-found error response naming
\* the tool is recorded, and the exchange goes on: every other call is still
\* answered and the tool responses are sent back to the model.
C22_UnknownToolContinues ==
    (chatPc = "run" /\ chat_history # <<>> /\ NoCallRaised
        /\ \E i \in 1..Len(response.parts) : Unknown(response.parts[i])) =>
        /\ \A i \in 1..Len(executed) : executed[i] \in DOMAIN tool_functions
        /\ Len(executed) =
              Cardinality({i \in Calls : ~Unknown(response.parts[i])})
        /\ \A i \in 1..Len(response.parts) :
              Unknown(response.parts[i]) =>
                  \E j \in ResponseEntries :
                      /\ chat_history[j].name = response.parts[i].name
                      /\ ~chat_history[j].found
        /\ Cardinality(ResponseEntries) = Cardinality(Calls)
        /\ Len(followup) = Cardinality(Calls)
        /\ \E k \in 1..Len(followup) : followup[k].error

C22_Witness ==
    /\ chatPc = "run"
    /\ ~stopped
    /\ Len(response.parts) = 2
    /\ Unknown(response.parts[1])
    /\ IsCall(response.parts[2]) /\ ~Unknown(response.parts[2])
    /\ executed = <<"get_historical_data">>
    /\ Len(followup) = 2
    /\ followup[1].error /\ ~followup[2].error
    /\ Len(chat_history) = 4

\* C27: every entry of chat_history is a message record with a role of
\* "user" or "model" and a non-empty parts list (here: its one text part),
\* after any chat input, including one in which the model called a tool.
C27_AllMessageRecords ==
    \A i \in 1..Len(chat_history) :
        /\ Role(i) \in {"user", "model"}
        /\ chat_history[i].text # ""

\* the numeric value v compared with an integer bound, from its fraction
Above(v, b) == v.n > b * v.d

Below(v, b) == v.n < b * v.d

\* C23: interpret_rsi maps every numeric RSI value in [0, 100] to one of
\* five readings by the intervals > 70 overbought, < 30 oversold, (50, 70]
\* upward trend, [30, 50) downward trend, exactly 50 neutral; 30 and 70 are
\* never oversold or overbought.
C23_InterpretIntervals ==
    (interpPc = "interpreted" /\ IsNum(latest_rsi)) =>
        /\ rsi_interpretation_text = "overbought" <=> Above(latest_rsi, 70)
        /\ rsi_interpretation_text = "oversold" <=> Below(latest_rsi, 30)
        /\ rsi_interpretation_text = "upward" <=>
              (Above(latest_rsi, 50) /\ ~Above(latest_rsi, 70))
        /\ rsi_interpretation_text = "downward" <=>
              (~Below(latest_rsi, 30) /\ Below(latest_rsi, 50))
        /\ rsi_interpretation_text = "neutral" <=> latest_rsi = Int2F(50)
        /\ rsi_interpretation_text # "not_available"

C23_Witness ==
    /\ interpPc = "interpreted"
    /\ latest_rsi = Int2F(70)
    /\ rsi_interpretation_text = "upward"

C23_WitnessThirty ==
    /\ interpPc = "interpreted"
    /\ latest_rsi = Int2F(30)
    /\ rsi_interpretation_text = "downward"

\* C28: when the RSI of the latest row is undefined (NaN), analyze_stock
\* reports the "not available" sentence and never a trend or neutral reading.
C28_UndefinedNotAvailable ==
    (interpPc = "analyzed" /\ IsNaN(latest_rsi)) =>
        rsi_interpretation_text = "not_available"

\* the reading an undefined latest RSI gets
C28_UndefinedReadsNeutral ==
    /\ interpPc = "analyzed"
    /\ IsNaN(latest_rsi)
    /\ Len(interp_close) < interp_window
    /\ rsi_interpretation_text = "neutral"

\* C24: the padding variant of fetch_fed_rate_data returns one row per
\* generated yearly date; the hard-coded rates are on the earliest rows in
\* their original order and every later row has no rate.
C24_PaddedToDates ==
    (fed_variant = "padding" /\ fedPc \in {"fetched", "main_done"}) =>
        /\ ~fed_table.raised
        /\ Len(fed_table.rows) = fed_end.year - StartYear + 1
        /\ \A i \in 1..Len(fed_table.rows) :
              /\ fed_table.rows[i].date = StartYear + i - 1
              /\ i <= Len(HardCodedRates) => fed_table.rows[i].rate = HardCodedRates[i]
              /\ i > Len(HardCodedRates) => IsNaN(fed_table.rows[i].rate)

C24_Witness ==
    /\ fed_variant = "padding"
    /\ fedPc = "main_done"
    /\ Len(fed_table.rows) = Len(HardCodedRates) + 2
    /\ IsNaN(fed_table.rows[Len(HardCodedRates) + 1].rate)
    /\ fed_shown = {"line_chart", "caption", "dataframe"}

\* C25: in the length-checking variant, when the date list and the rate
\* list differ in length the function does not raise: it reports an error
\* and returns an empty table, and main, run to its end, shows the warning;
\* no run, ended early or not, draws the chart or the data table.
C25_MismatchIsEmptyTable ==
    (fed_variant = "checking" /\ fed_end.year - StartYear + 1 # Len(HardCodedRates)) =>
        /\ ~fed_table.raised
        /\ fed_table.rows = <<>>
        /\ fed_shown \subseteq {"warning"}
        /\ fedPc \in {"fetched", "main_done"} => fed_table.reported
        /\ fedPc = "main_done" => fed_shown = {"warning"}

C25_Witness ==
    /\ fed_variant = "checking"
    /\ fedPc = "main_done"
    /\ fed_end = [year |-> EndYear, month |-> 3]
    /\ fed_table.reported
    /\ fed_shown = {"warning"}

\* a run ended at st.warning has reported the error and shown nothing else
C25_EndedAtWarningWitness ==
    /\ fed_variant = "checking"
    /\ fedPc = "stopped"
    /\ fed_table.reported
    /\ fed_shown = {}

\* the padding variant, ended at st.write: the chart without its table
C25_ChartOnlyWitness ==
    /\ fed_variant = "padding"
    /\ fedPc = "stopped"
    /\ fed_shown = {"line_chart"}

\* C26: every return path of analyze_stock (success, empty data, caught
\* exception) gives a result its caller can unpack; an empty-data result
\* never makes the unpacking in main fail.
C26_SameArity ==
    returned \in {"success", "empty", "exception"} => ~unpack_failed

====
